---- MODULE Spec2Model ----
(***************************************************************************)
(* A model of go-windows-service-handler-server (src/main.go).             *)
(*                                                                         *)
(* src/main.go holds two programs of the repository:                       *)
(*   build "dual"  (lines 1-210):   main detects the execution mode, runs  *)
(*       as a Windows service (Execute) or in a console, and serves        *)
(*       /start /stop /status with startWindowsService,                    *)
(*       stopWindowsService, waitForState and getServiceStatus;            *)
(*   build "plain" (lines 211-351): main serves the same routes with       *)
(*       startService, stopService and getServiceStatus.                   *)
(* A run is a run of one of the two; `build' says which.                   *)
(*                                                                         *)
(* Time is counted in units of 100 ms.  Every request has its own clock    *)
(* clk, the time since it last computed a deadline; it saturates at        *)
(* ClkCap, past which the code's only comparison (After) cannot change.    *)
(***************************************************************************)
EXTENDS Integers, Sequences, FiniteSets, TLC

VARIABLES
    build,      \* which program runs: "dual" or "plain"
    proc,       \* the process: "main", "service", "console", "exited"
    hostPc,     \* position in myService.Execute
    cur,        \* the ChangeRequest c received by Execute
    changes,    \* every svc.Status sent on the changes channel, in order
    consumed,   \* every command received from r, in order
    srv,        \* startServer: "off", "starting", "listening", "failed"
    svcState,   \* the service control manager: identifier -> state
    lastCmd,    \* identifier -> the request whose Start/Control was accepted last (0: none)
    lastOk,     \* identifier -> the start/stop that returned nil with its command still the last one
    req         \* the requests being served: slot -> record

vars == <<build, proc, hostPc, cur, changes, consumed, srv,
          svcState, lastCmd, lastOk, req>>

hostVars == <<hostPc, cur, changes, consumed>>
scmVars == <<svcState, lastCmd, lastOk>>

----------------------------------------------------------------------------
(* Program constants *)

serviceName == "go-windows-service-handler"
exporterSvcName == "windows_exporter"
plainServiceName == "windows_exporter"

\* 10 * time.Second and 300 * time.Millisecond, in units of 100 ms
WaitBudget == 100
PollInterval == 3

StatusOK == 200
StatusInternalServerError == 500

\* svc.State: the states getServiceStatus names, and one it does not
States == {"Stopped", "StartPending", "StopPending", "Running", "Paused"}

\* svc.Cmd: the commands Execute names, and one it does not
Cmds == {"Interrogate", "Stop", "Shutdown", "Pause"}

cmdsAccepted == {"Stop", "Shutdown"}

----------------------------------------------------------------------------
(* Bounds *)

\* request slots; OtherName is an identifier a request may ask for
Reqs == {1, 2}
OtherName == "foo"
Names == {exporterSvcName, OtherName}
Params == {"", OtherName}

\* the per-request call counters saturate here
CountCap == 2

\* commands the host sends at most
MaxSignals == 4

ClkCap == WaitBudget + PollInterval

Min(a, b) == IF a < b THEN a ELSE b
Max(a, b) == IF a > b THEN a ELSE b
Bump(n) == Min(n + 1, CountCap)

----------------------------------------------------------------------------
(* Requests *)

NoResp == [code |-> 0, msg |-> "", name |-> "", text |-> ""]

Idle ==
    [pc |-> "idle", route |-> "", param |-> "", name |-> "",
     status |-> "", err |-> "", timeout |-> 0, clk |-> 0, sleepLeft |-> 0,
     resp |-> NoResp, sawOk |-> "", past |-> FALSE,
     nConnect |-> 0, nDisconnect |-> 0, nOpen |-> 0, nClose |-> 0,
     nStart |-> 0, nControl |-> 0, nQuery |-> 0, nSleep |-> 0, nResp |-> 0]

Serving == proc \in {"service", "console"} /\ srv = "listening"

\* the identifier the handlers pass on: the constant, whatever the request says
Target(param) == IF build = "dual" THEN exporterSvcName ELSE plainServiceName

\* handleStart, handleStop, handleStatus: the call of the operation
Handle(i, route, param) ==
    /\ Serving
    /\ req[i].pc = "idle"
    /\ req' = [req EXCEPT ![i] = [Idle EXCEPT !.pc = "connect", !.route = route,
                                              !.param = param, !.name = Target(param)]]
    /\ UNCHANGED <<build, proc, hostVars, srv, scmVars>>

\* mgr.Connect()
Connect(i) ==
    /\ Serving
    /\ req[i].pc = "connect"
    /\ \/ req' = [req EXCEPT ![i].pc = "open", ![i].nConnect = Bump(@)]
       \/ req' = [req EXCEPT ![i].pc = "return", ![i].err = "connect"]
    /\ UNCHANGED <<build, proc, hostVars, srv, scmVars>>

\* a slip: the stop operation copied from the start one, s.Start() left in
OpenedPc_copied(r) ==
    CASE r.route = "status" -> "status"
      [] OTHER -> "start"

\* m.OpenService(name)
OpenedPc(r) ==
    CASE r.route = "start" -> "start"
      [] r.route = "stop" -> "control"
      [] OTHER -> "status"

\* a slip: defer s.Close() placed before the test of OpenService's error
OpenFailedPc_deferFirst == "close"

\* OpenService failed: the deferred Disconnect runs, no handle is there to close
OpenFailedPc == "disconnect"

OpenService(i) ==
    /\ Serving
    /\ req[i].pc = "open"
    /\ \/ req' = [req EXCEPT ![i].pc = OpenedPc(req[i]), ![i].nOpen = Bump(@)]
       \/ req' = [req EXCEPT ![i].pc = OpenFailedPc, ![i].err = "access"]
    /\ UNCHANGED <<build, proc, hostVars, srv, scmVars>>

\* where a start goes once s.Start() returned nil
StartedPc == IF build = "dual" THEN "wait" ELSE "close"

\* a slip: the error of s.Start() not tested
StartFailedPc_ignored == "wait"

\* s.Start() failed: return the error
StartFailedPc == "close"

\* s.Start(): accepted for a stopped service only
Start(i) ==
    /\ Serving
    /\ req[i].pc = "start"
    /\ \/ /\ svcState[req[i].name] = "Stopped"
          /\ svcState' = [svcState EXCEPT ![req[i].name] = "StartPending"]
          /\ lastCmd' = [lastCmd EXCEPT ![req[i].name] = i]
          /\ lastOk' = [lastOk EXCEPT ![req[i].name] = ""]
          /\ req' = [req EXCEPT ![i].pc = StartedPc, ![i].nStart = Bump(@),
                                ![i].err = IF StartedPc = "close" THEN "nil" ELSE @]
       \/ /\ req' = [req EXCEPT ![i].pc = StartFailedPc, ![i].err = "start", ![i].nStart = Bump(@)]
          /\ UNCHANGED scmVars
    /\ UNCHANGED <<build, proc, hostVars, srv>>

\* s.Control(svc.Stop): accepted for a running service; it returns the new status
Control(i) ==
    /\ Serving
    /\ req[i].pc = "control"
    /\ \/ /\ svcState[req[i].name] = "Running"
          /\ \E s \in {"StopPending", "Stopped"} :
                /\ svcState' = [svcState EXCEPT ![req[i].name] = s]
                /\ req' = [req EXCEPT ![i].pc = IF build = "dual" THEN "wait" ELSE "stopwait",
                                      ![i].nControl = Bump(@),
                                      ![i].status = IF build = "dual" THEN @ ELSE s]
          /\ lastCmd' = [lastCmd EXCEPT ![req[i].name] = i]
          /\ lastOk' = [lastOk EXCEPT ![req[i].name] = ""]
       \/ /\ req' = [req EXCEPT ![i].pc = "close", ![i].err = "control", ![i].nControl = Bump(@)]
          /\ UNCHANGED scmVars
    /\ UNCHANGED <<build, proc, hostVars, srv>>

\* what Query's failure returns: waitForState passes err on, stopService wraps it
QueryErr == "query"

\* a slip: a failed Query taken for "not yet there", and polled again
QueryFailedPc_retry == "deadline"

\* where a failed Query leaves the wait: return err
QueryFailedPc == "close"

\* a slip: the test ignores which state is waited for
Reached_running(s, desired) == s = "Running"

\* a slip: a pending stop taken for a stop
Reached_pending(s, desired) == s = desired \/ (desired = "Stopped" /\ s = "StopPending")

\* status.State == desired
Reached(s, desired) == s = desired

\* the state each operation waits for
Desired(r) == IF r.route = "start" THEN "Running" ELSE "Stopped"

\* waitForState: timeout := time.Now().Add(10 * time.Second)
WaitEnter(i) ==
    /\ Serving
    /\ req[i].pc = "wait"
    /\ req' = [req EXCEPT ![i].pc = "query", ![i].clk = 0, ![i].timeout = 0 + WaitBudget]
    /\ UNCHANGED <<build, proc, hostVars, srv, scmVars>>

\* stopService: timeout := ..., and the loop's first test of the status Control returned
StopWaitEnter(i) ==
    /\ Serving
    /\ req[i].pc = "stopwait"
    /\ req' = [req EXCEPT ![i].clk = 0, ![i].timeout = 0 + WaitBudget,
                          ![i].pc = IF Reached(req[i].status, "Stopped") THEN "close" ELSE "deadline",
                          ![i].err = IF Reached(req[i].status, "Stopped") THEN "nil" ELSE @]
    /\ UNCHANGED <<build, proc, hostVars, srv, scmVars>>

\* a slip: !Before for After
After_orEqual(now, t) == now >= t

\* time.Now().After(timeout)
After(now, t) == now > t

\* a slip: the deadline tested before the state
Query_deadlineFirst(i) ==
    /\ Serving
    /\ req[i].pc = "query"
    /\ \/ LET s == svcState[req[i].name]
              late == After(req[i].clk, req[i].timeout)
          IN  req' = [req EXCEPT ![i].status = s, ![i].nQuery = Bump(@),
                                 ![i].pc = IF late \/ Reached(s, Desired(req[i]))
                                             THEN "close" ELSE "deadline",
                                 ![i].err = IF late THEN "timeout"
                                            ELSE IF Reached(s, Desired(req[i])) THEN "nil" ELSE @]
       \/ req' = [req EXCEPT ![i].pc = QueryFailedPc, ![i].err = QueryErr, ![i].nQuery = Bump(@)]
    /\ UNCHANGED <<build, proc, hostVars, srv, scmVars>>

\* s.Query() in the wait, and the test of its state against the desired one
Query(i) ==
    /\ Serving
    /\ req[i].pc = "query"
    /\ \/ LET s == svcState[req[i].name] IN
          req' = [req EXCEPT ![i].status = s, ![i].nQuery = Bump(@),
                             ![i].pc = IF Reached(s, Desired(req[i])) THEN "close" ELSE "deadline",
                             ![i].err = IF Reached(s, Desired(req[i])) THEN "nil" ELSE @]
       \/ req' = [req EXCEPT ![i].pc = QueryFailedPc, ![i].err = QueryErr, ![i].nQuery = Bump(@)]
    /\ UNCHANGED <<build, proc, hostVars, srv, scmVars>>


\* the deadline test, then time.Sleep(300 * time.Millisecond)
Deadline(i) ==
    /\ Serving
    /\ req[i].pc = "deadline"
    /\ IF After(req[i].clk, req[i].timeout)
         THEN req' = [req EXCEPT ![i].pc = "close", ![i].err = "timeout",
                                 ![i].past = req[i].clk > WaitBudget]
         ELSE req' = [req EXCEPT ![i].pc = "sleep", ![i].nSleep = Bump(@),
                                 ![i].past = req[i].clk > WaitBudget,
                                 ![i].sleepLeft = PollInterval]
    /\ UNCHANGED <<build, proc, hostVars, srv, scmVars>>

\* a slip: the deadline set anew in each round of the loop
Wake_newDeadline(i) ==
    /\ Serving
    /\ req[i].pc = "sleep"
    /\ req[i].sleepLeft = 0
    /\ req' = [req EXCEPT ![i].pc = "query", ![i].clk = 0]
    /\ UNCHANGED <<build, proc, hostVars, srv, scmVars>>

\* time.Sleep returns: not before the interval has passed
Wake(i) ==
    /\ Serving
    /\ req[i].pc = "sleep"
    /\ req[i].sleepLeft = 0
    /\ req' = [req EXCEPT ![i].pc = "query"]
    /\ UNCHANGED <<build, proc, hostVars, srv, scmVars>>

\* getServiceStatus: the switch on status.State
StateText(s) ==
    CASE s = "Stopped" -> "Stopped"
      [] s = "StartPending" -> "Start Pending"
      [] s = "StopPending" -> "Stop Pending"
      [] s = "Running" -> "Running"
      [] OTHER -> "Unknown"

\* getServiceStatus: s.Query() and the switch
StatusQuery(i) ==
    /\ Serving
    /\ req[i].pc = "status"
    /\ \/ req' = [req EXCEPT ![i].status = svcState[req[i].name], ![i].nQuery = Bump(@),
                             ![i].pc = "close", ![i].err = "nil",
                             ![i].sawOk = lastOk[req[i].name]]
       \/ req' = [req EXCEPT ![i].pc = "close", ![i].err = "query", ![i].nQuery = Bump(@)]
    /\ UNCHANGED <<build, proc, hostVars, srv, scmVars>>

\* defer s.Close()
Close(i) ==
    /\ Serving
    /\ req[i].pc = "close"
    /\ req' = [req EXCEPT ![i].pc = "disconnect", ![i].nClose = Bump(@)]
    /\ UNCHANGED <<build, proc, hostVars, srv, scmVars>>

\* a slip: the two defers registered in the other order
Disconnect_beforeClose(i) ==
    /\ Serving
    /\ \/ /\ req[i].pc = "close" /\ req[i].nDisconnect = 0
          /\ req' = [req EXCEPT ![i].nDisconnect = Bump(@)]
       \/ /\ req[i].pc = "disconnect"
          /\ req' = [req EXCEPT ![i].pc = "return",
                                ![i].nDisconnect = IF @ = 0 THEN Bump(@) ELSE @]
    /\ UNCHANGED <<build, proc, hostVars, srv, scmVars>>

\* defer m.Disconnect()
Disconnect(i) ==
    /\ Serving
    /\ req[i].pc = "disconnect"
    /\ req' = [req EXCEPT ![i].pc = "return", ![i].nDisconnect = Bump(@)]
    /\ UNCHANGED <<build, proc, hostVars, srv, scmVars>>

\* the handlers' responses
OkMsg(route) ==
    CASE route = "start" -> "started successfully"
      [] route = "stop" -> "stopped successfully"
      [] OTHER -> "state"

FailMsg(route) ==
    CASE route = "start" -> "Failed to start service"
      [] route = "stop" -> "Failed to stop service"
      [] OTHER -> "Failed to get status"

Response(r) ==
    IF r.err = "nil"
      THEN [code |-> StatusOK, msg |-> OkMsg(r.route), name |-> Target(r.param),
            text |-> IF r.route = "status" THEN StateText(r.status) ELSE ""]
      ELSE [code |-> StatusInternalServerError, msg |-> FailMsg(r.route),
            name |-> "", text |-> r.err]

\* the operation returns to its handler, which writes the response
Respond(i) ==
    /\ Serving
    /\ req[i].pc = "return"
    /\ req' = [req EXCEPT ![i].pc = "done", ![i].resp = Response(req[i]),
                          ![i].nResp = Bump(@)]
    /\ lastOk' = IF req[i].err = "nil" /\ req[i].route \in {"start", "stop"}
                    /\ lastCmd[req[i].name] = i
                   THEN [lastOk EXCEPT ![req[i].name] = req[i].route]
                   ELSE lastOk
    /\ UNCHANGED <<build, proc, hostVars, srv, svcState, lastCmd>>

\* the request is over
Finish(i) ==
    /\ req[i].pc = "done"
    /\ req' = [req EXCEPT ![i] = Idle]
    /\ UNCHANGED <<build, proc, hostVars, srv, scmVars>>

----------------------------------------------------------------------------
(* The environment: the service control manager and time *)

\* a pending transition completes, or a start fails
Progress(n) ==
    /\ \/ svcState[n] = "StartPending" /\ \E s \in {"Running", "Stopped"} :
              svcState' = [svcState EXCEPT ![n] = s]
       \/ svcState[n] = "StopPending" /\ svcState' = [svcState EXCEPT ![n] = "Stopped"]
    /\ UNCHANGED <<build, proc, hostVars, srv, lastCmd, lastOk, req>>

\* somebody else changes the service
External(n) ==
    /\ \E s \in States \ {svcState[n]} : svcState' = [svcState EXCEPT ![n] = s]
    /\ lastCmd' = [lastCmd EXCEPT ![n] = 0]
    /\ lastOk' = [lastOk EXCEPT ![n] = ""]
    /\ UNCHANGED <<build, proc, hostVars, srv, req>>

Timed(r) == r.pc \in {"query", "deadline", "sleep"}

\* d units of time pass
Tick(d) ==
    /\ \E i \in Reqs : Timed(req[i])
    /\ req' = [i \in Reqs |->
                 IF Timed(req[i])
                   THEN [req[i] EXCEPT !.clk = Min(@ + d, ClkCap),
                                       !.sleepLeft = Max(@ - d, 0)]
                   ELSE req[i]]
    /\ UNCHANGED <<build, proc, hostVars, srv, scmVars>>

----------------------------------------------------------------------------
(* The process *)

\* a slip: runService called whatever IsWindowsService answered
Main_noModeTest ==
    /\ build = "dual"
    /\ proc = "main"
    /\ \/ proc' = "exited" /\ UNCHANGED <<hostPc, srv>>
       \/ proc' = "service" /\ hostPc' = "run" /\ UNCHANGED srv
       \/ proc' = "console" /\ hostPc' = "run" /\ srv' = "starting"
    /\ UNCHANGED <<build, cur, changes, consumed, scmVars, req>>

\* main of the dual build: svc.IsWindowsService()
Main ==
    /\ build = "dual"
    /\ proc = "main"
    /\ \/ proc' = "exited" /\ UNCHANGED <<hostPc, srv>>
       \/ proc' = "service" /\ hostPc' = "run" /\ UNCHANGED srv
       \/ proc' = "console" /\ srv' = "starting" /\ UNCHANGED hostPc
    /\ UNCHANGED <<build, cur, changes, consumed, scmVars, req>>

\* main of the plain build
PlainMain ==
    /\ build = "plain"
    /\ proc = "main"
    /\ proc' = "console"
    /\ srv' = "starting"
    /\ UNCHANGED <<build, hostVars, scmVars, req>>

\* startServer: http.ListenAndServe begins to serve, or returns an error
ListenAndServe ==
    /\ proc \in {"service", "console"}
    /\ srv = "starting"
    /\ srv' \in {"listening", "failed"}
    /\ UNCHANGED <<build, proc, hostVars, scmVars, req>>

\* a slip: the error logged with log.Print, startServer returns
LogFatal_print ==
    /\ proc \in {"service", "console"}
    /\ srv = "failed"
    /\ srv' = "off"
    /\ UNCHANGED <<build, proc, hostVars, scmVars, req>>

\* startServer: log.Fatal(err) ends the process, in a goroutine as in main
LogFatal ==
    /\ proc \in {"service", "console"}
    /\ srv = "failed"
    /\ proc' = "exited"
    /\ UNCHANGED <<build, hostVars, srv, scmVars, req>>

\* a slip: the accepted commands left out of the first status
EntryStatus_noAccepts == [State |-> "Running", Accepts |-> {}]

\* svc.Status{State: svc.Running, Accepts: cmdsAccepted}
EntryStatus == [State |-> "Running", Accepts |-> cmdsAccepted]

\* Execute: changes <- svc.Status{State: svc.Running, Accepts: cmdsAccepted}
ExecuteEntry ==
    /\ proc = "service"
    /\ hostPc = "entry"
    /\ changes' = Append(changes, EntryStatus)
    /\ hostPc' = "go"
    /\ UNCHANGED <<build, proc, cur, consumed, srv, scmVars, req>>

\* a slip: startServer() called without go, Execute waits in it
GoStartServer_call ==
    /\ proc = "service"
    /\ hostPc = "go"
    /\ srv = "off"
    /\ srv' = "starting"
    /\ hostPc' = "go"
    /\ UNCHANGED <<build, proc, cur, changes, consumed, scmVars, req>>

\* Execute: go startServer()
GoStartServer ==
    /\ proc = "service"
    /\ hostPc = "go"
    /\ srv' = "starting"
    /\ hostPc' = "loop"
    /\ UNCHANGED <<build, proc, cur, changes, consumed, scmVars, req>>

\* runService: svc.Run calls Execute, or fails and log.Fatalf ends the process
runService ==
    /\ proc = "service"
    /\ hostPc = "run"
    /\ \/ hostPc' = "entry" /\ UNCHANGED proc
       \/ proc' = "exited" /\ UNCHANGED hostPc
    /\ UNCHANGED <<build, cur, changes, consumed, srv, scmVars, req>>

\* the status a ChangeRequest carries: the one the service reported last
CurrentStatus == changes[Len(changes)]

\* Execute: case c := <-r
Receive(cmd) ==
    /\ proc = "service"
    /\ hostPc = "loop"
    /\ Len(consumed) < MaxSignals
    /\ cur' = [Cmd |-> cmd, CurrentStatus |-> CurrentStatus]
    /\ consumed' = Append(consumed, cmd)
    /\ hostPc' = "switch"
    /\ UNCHANGED <<build, proc, changes, srv, scmVars, req>>

\* a slip: the status built anew, without the accepted commands
InterrogateReply_bare(c) == [State |-> "Running", Accepts |-> {}]

\* case svc.Interrogate: changes <- c.CurrentStatus
InterrogateReply(c) == c.CurrentStatus

\* a slip: break leaves the switch, not the loop
StopPc_switchOnly == "loop"

\* case svc.Stop, svc.Shutdown: break loop
StopPc == "break"

\* a slip: an unexpected command taken for a reason to stop
DefaultPc_stop == "break"

\* default: log.Printf, and the loop goes on
DefaultPc == "loop"

\* Execute: switch c.Cmd
Switch ==
    /\ proc = "service"
    /\ hostPc = "switch"
    /\ \/ /\ cur.Cmd = "Interrogate"
          /\ changes' = Append(changes, InterrogateReply(cur))
          /\ hostPc' = "loop"
       \/ /\ cur.Cmd \in {"Stop", "Shutdown"}
          /\ hostPc' = StopPc
          /\ UNCHANGED changes
       \/ /\ cur.Cmd \notin {"Interrogate", "Stop", "Shutdown"}
          /\ hostPc' = DefaultPc
          /\ UNCHANGED changes
    /\ UNCHANGED <<build, proc, cur, consumed, srv, scmVars, req>>

\* Execute: changes <- svc.Status{State: svc.StopPending}, and return
ExecuteReturn ==
    /\ proc = "service"
    /\ hostPc = "break"
    /\ changes' = Append(changes, [State |-> "StopPending", Accepts |-> {}])
    /\ hostPc' = "returned"
    /\ UNCHANGED <<build, proc, cur, consumed, srv, scmVars, req>>

\* svc.Run returns nil, runService and main return
MainReturn ==
    /\ proc = "service"
    /\ hostPc = "returned"
    /\ proc' = "exited"
    /\ UNCHANGED <<build, hostVars, srv, scmVars, req>>

Init ==
    /\ build \in {"dual", "plain"}
    /\ proc = "main"
    /\ hostPc = "none"
    /\ cur = [Cmd |-> "", CurrentStatus |-> [State |-> "", Accepts |-> {}]]
    /\ changes = <<>>
    /\ consumed = <<>>
    /\ srv = "off"
    /\ svcState \in [Names -> States]
    /\ svcState[OtherName] \in {"StartPending", "Stopped"}
    /\ lastCmd = [n \in Names |-> 0]
    /\ lastOk = [n \in Names |-> ""]
    /\ req = [i \in Reqs |-> Idle]

Boot ==
    \/ Main
    \/ PlainMain
    \/ runService
    \/ ListenAndServe
    \/ LogFatal
    \/ ExecuteEntry
    \/ GoStartServer

Host ==
    \/ \E cmd \in Cmds : Receive(cmd)
    \/ Switch
    \/ ExecuteReturn
    \/ MainReturn

Step(i) ==
    \/ \E route \in {"start", "stop", "status"}, param \in Params : Handle(i, route, param)
    \/ Connect(i)
    \/ OpenService(i)
    \/ Start(i)
    \/ Control(i)
    \/ WaitEnter(i)
    \/ StopWaitEnter(i)
    \/ Query(i)
    \/ Deadline(i)
    \/ Wake(i)
    \/ StatusQuery(i)
    \/ Close(i)
    \/ Disconnect(i)
    \/ Respond(i)
    \/ Finish(i)

Env ==
    \/ \E n \in Names : Progress(n)
    \/ \E n \in Names : External(n)

\* one client, one request at a time; the host sends nothing
Next ==
    \/ Boot
    \/ Step(1)
    \/ Env
    \/ \E d \in {PollInterval, WaitBudget} : Tick(d)

Spec == Init /\ [][Next]_vars

\* the process under its host, with no request made
NextHost ==
    \/ Boot
    \/ Host

SpecHost == Init /\ [][NextHost]_vars

\* log.Fatal follows the failed ListenAndServe in the same goroutine, which the
\* scheduler does not starve
SpecHostFair == SpecHost /\ WF_vars(LogFatal)

\* the dual build with two clients at once and a host that sends one command,
\* an Interrogate or a Stop;
\* the clients give no parameter, nobody else touches the service, and time
\* passes a whole budget at a time
InitConc ==
    /\ Init
    /\ build = "dual"
    /\ svcState[exporterSvcName] \in {"Stopped", "Running"}
    /\ svcState[OtherName] = "Stopped"

StepConc(i) ==
    \/ \E route \in {"start", "stop", "status"} : Handle(i, route, "")
    \/ Connect(i)
    \/ OpenService(i)
    \/ Start(i)
    \/ Control(i)
    \/ WaitEnter(i)
    \/ Query(i)
    \/ Deadline(i)
    \/ Wake(i)
    \/ StatusQuery(i)
    \/ Close(i)
    \/ Disconnect(i)
    \/ Respond(i)
    \/ Finish(i)

HostOnce ==
    \/ \E cmd \in {"Interrogate", "Stop"} : Len(consumed) = 0 /\ Receive(cmd)
    \/ Switch
    \/ ExecuteReturn
    \/ MainReturn

NextConc ==
    \/ Main
    \/ runService
    \/ ListenAndServe
    \/ LogFatal
    \/ ExecuteEntry
    \/ GoStartServer
    \/ HostOnce
    \/ \E i \in Reqs : StepConc(i)
    \/ Progress(exporterSvcName)
    \/ Tick(WaitBudget)

SpecConc == InitConc /\ [][NextConc]_vars

\* the dual build with one client, a host that sends one command, and a
\* target service that anybody may change at any time
NextLive ==
    \/ Main
    \/ runService
    \/ ListenAndServe
    \/ LogFatal
    \/ ExecuteEntry
    \/ GoStartServer
    \/ HostOnce
    \/ StepConc(1)
    \/ Progress(exporterSvcName)
    \/ External(exporterSvcName)
    \/ Tick(PollInterval)
    \/ Tick(WaitBudget)

\* every Query returns, the handler's goroutine is scheduled, and the clock
\* advances; nothing obliges the host to send a command
SpecLive ==
    /\ InitConc
    /\ [][NextLive]_vars
    /\ WF_vars(Query(1))
    /\ WF_vars(Deadline(1))
    /\ WF_vars(Wake(1))
    /\ WF_vars(Tick(PollInterval))

----------------------------------------------------------------------------
(* Properties *)

Exited(r) == r.pc \in {"close", "disconnect", "return", "done"}
Returned(r) == r.pc \in {"return", "done"}
RunningStatus == [State |-> "Running", Accepts |-> cmdsAccepted]
StopPendingStatus == [State |-> "StopPending", Accepts |-> {}]
Count(seq, x) == Cardinality({k \in 1..Len(seq) : seq[k] = x})

\* C1: a start that returns nil has seen a Query of its handle return Running, a
\* stop that returns nil has seen the subsystem report Stopped, and a wait whose
\* deadline passed without that returns the timeout error.
C1_SuccessIsConfirmed ==
    \A i \in Reqs :
        /\ (Returned(req[i]) /\ req[i].err = "nil" /\ req[i].route = "start")
              => (req[i].nQuery >= 1 /\ req[i].status = "Running")
        /\ (Returned(req[i]) /\ req[i].err = "nil" /\ req[i].route = "stop")
              => req[i].status = "Stopped"
        /\ (Returned(req[i]) /\ req[i].past) => req[i].err = "timeout"

\* C2: once an operation has returned, it has disconnected as often as it
\* connected and closed as often as it opened, each at most once, and at no time
\* has it released what it did not open.
C2_ReleasedExactlyOnce ==
    \A i \in Reqs :
        /\ req[i].nConnect <= 1 /\ req[i].nOpen <= 1
        /\ req[i].nDisconnect <= req[i].nConnect
        /\ req[i].nClose <= req[i].nOpen
        /\ Returned(req[i]) => /\ req[i].nDisconnect = req[i].nConnect
                               /\ req[i].nClose = req[i].nOpen

C2_Witness ==
    \E i \in Reqs : /\ req[i].pc = "done" /\ req[i].err = "timeout"
                    /\ req[i].nOpen = 1 /\ req[i].nClose = 1
                    /\ req[i].nConnect = 1 /\ req[i].nDisconnect = 1

\* C3: StopPending is reported at most once, only as the last report and only
\* when the last command consumed is a Stop or Shutdown; that command is the
\* only one of its kind consumed, the loop is left for good when it is
\* consumed, and Execute has returned once StopPending is reported.
C3_StopReportedOnce ==
    /\ Count(changes, StopPendingStatus) <= 1
    /\ \A k \in 1..Len(changes) : changes[k].State = "StopPending" =>
          /\ k = Len(changes)
          /\ hostPc = "returned"
          /\ Len(consumed) > 0
          /\ consumed[Len(consumed)] \in {"Stop", "Shutdown"}
    /\ \A k \in 1..Len(consumed) : consumed[k] \in {"Stop", "Shutdown"} =>
          /\ k = Len(consumed)
          /\ hostPc \in {"switch", "break", "returned"}
    /\ hostPc = "returned" => Count(changes, StopPendingStatus) = 1

C3_Witness ==
    /\ hostPc = "returned"
    /\ Len(consumed) >= 3
    /\ consumed[Len(consumed)] = "Shutdown"
    /\ changes[Len(changes)] = StopPendingStatus

\* C4: every Interrogate consumed is answered by one report, the reports
\* made in the loop all equal the status reported on entry (Running, accepting
\* Stop and Shutdown), and after an Interrogate the loop receives again.
Handled == IF hostPc = "switch" THEN SubSeq(consumed, 1, Len(consumed) - 1) ELSE consumed

C4_InterrogateRepeatsStatus ==
    hostPc \in {"loop", "switch", "break"} =>
        /\ Len(changes) = 1 + Count(Handled, "Interrogate")
        /\ \A k \in 1..Len(changes) : changes[k] = RunningStatus
        /\ (Len(consumed) > 0 /\ consumed[Len(consumed)] = "Interrogate")
              => hostPc \in {"switch", "loop"}

C4_Witness ==
    /\ hostPc = "loop"
    /\ Len(consumed) >= 2
    /\ consumed[1] = "Interrogate"
    /\ consumed[2] = "Interrogate"
    /\ Len(changes) = 3

\* C5: the deadline of a wait is its start plus the budget and stays so; the
\* timeout error is returned only with the clock past the deadline, and a wait
\* goes to sleep only when its deadline test found the clock not past it.
C5_TimeoutAtDeadline ==
    \A i \in Reqs :
        /\ (Timed(req[i]) \/ req[i].err = "timeout") => req[i].timeout = WaitBudget
        /\ req[i].err = "timeout" => req[i].clk > WaitBudget
        /\ req[i].pc = "sleep" => ~req[i].past

C5_Witness ==
    \E i \in Reqs : /\ req[i].pc = "done" /\ req[i].err = "timeout"
                    /\ req[i].nSleep >= 2 /\ req[i].clk > WaitBudget
                    /\ req[i].status # Desired(req[i])

\* C6: when the first Query of waitForState returns the desired state, the
\* wait is over with nil, after that one Query and no sleep.
C6_FirstQueryMatches ==
    \A i \in Reqs :
        (/\ build = "dual" /\ req[i].route \in {"start", "stop"}
         /\ req[i].nQuery = 1 /\ req[i].err # QueryErr
         /\ req[i].status = Desired(req[i]))
        => (Exited(req[i]) /\ req[i].err = "nil" /\ req[i].nSleep = 0)

C6_Witness ==
    \E i \in Reqs : /\ build = "dual" /\ req[i].route = "stop" /\ req[i].pc = "done"
                    /\ req[i].nQuery = 1 /\ req[i].nSleep = 0 /\ req[i].err = "nil"
                    /\ req[i].status = "Stopped"

\* C7: a wait whose Query failed is over: it queries and sleeps no more, and
\* its handler answers with the failure, neither a timeout nor a success.
C7_QueryErrorReturns ==
    \A i \in Reqs :
        req[i].err = QueryErr =>
            /\ Exited(req[i])
            /\ req[i].pc = "done" =>
                  /\ req[i].resp.code = StatusInternalServerError
                  /\ req[i].resp.text = QueryErr

C7_Witness ==
    \E i \in Reqs : /\ req[i].route = "stop" /\ req[i].pc = "done"
                    /\ req[i].err = QueryErr /\ req[i].nSleep >= 1
                    /\ req[i].nQuery >= 2

\* C8: a status that queries after a start returned nil, with no command and
\* no change by others since that start's own Start, reports Running.
C8_StartThenStatus ==
    \A i \in Reqs :
        (req[i].pc = "done" /\ req[i].route = "status" /\ req[i].err = "nil"
         /\ req[i].sawOk = "start")
        => (req[i].resp.code = StatusOK /\ req[i].resp.text = "Running")

\* C9: a status that queries after a stop returned nil, with no command and
\* no change by others since that stop's own Control, reports Stopped.
C9_StopThenStatus ==
    \A i \in Reqs :
        (req[i].pc = "done" /\ req[i].route = "status" /\ req[i].err = "nil"
         /\ req[i].sawOk = "stop")
        => (req[i].resp.code = StatusOK /\ req[i].resp.text = "Stopped")

C9_Witness ==
    \E i \in Reqs : /\ req[i].pc = "done" /\ req[i].route = "status"
                    /\ req[i].sawOk = "stop" /\ req[i].resp.text = "Stopped"

\* C10: a request works on the identifier its service-name parameter gives,
\* and on the default one only when it gives none; a status asked for foo
\* answers about foo.
Resolved(param) == IF param = "" THEN exporterSvcName ELSE param

C10_OverrideIsUsed ==
    \A i \in Reqs :
        /\ req[i].pc # "idle" => req[i].name = Resolved(req[i].param)
        /\ (req[i].pc = "done" /\ req[i].err = "nil") =>
              req[i].resp.name = Resolved(req[i].param)

\* C11: a failed step ends the operation: the steps after it are not made, no
\* call is made twice, and the handler writes one response, a 500 with the
\* route's failure text and never the success one; a /start whose OpenService
\* fails answers 500 "Failed to start service".
Failed(r) == r.err \notin {"", "nil"}

C11_FailureIsOneResponse ==
    \A i \in Reqs :
        /\ req[i].nResp <= 1 /\ req[i].nConnect <= 1 /\ req[i].nOpen <= 1
        /\ req[i].nStart <= 1 /\ req[i].nControl <= 1
        /\ Failed(req[i]) => Exited(req[i])
        /\ req[i].err = "connect" =>
              req[i].nOpen + req[i].nStart + req[i].nControl + req[i].nQuery = 0
        /\ req[i].err = "access" =>
              req[i].nStart + req[i].nControl + req[i].nQuery + req[i].nSleep = 0
        /\ req[i].err \in {"start", "control"} =>
              /\ req[i].nQuery = 0 /\ req[i].nSleep = 0
              /\ req[i].nStart + req[i].nControl = 1
        /\ (Failed(req[i]) /\ req[i].pc = "done") =>
              /\ req[i].nResp = 1
              /\ req[i].resp.code = StatusInternalServerError
              /\ req[i].resp.msg = FailMsg(req[i].route)
              /\ req[i].resp.msg # OkMsg(req[i].route)
        /\ (req[i].pc = "done" /\ req[i].route = "start" /\ req[i].err = "access") =>
              /\ req[i].resp.code = StatusInternalServerError
              /\ req[i].resp.msg = "Failed to start service"

C11_Witness ==
    \E i \in Reqs : /\ req[i].pc = "done" /\ req[i].route = "start"
                    /\ req[i].err = "access" /\ req[i].nStart = 0
                    /\ req[i].resp.code = StatusInternalServerError

\* C12: in the service, while requests are inside waitForState the dispatch
\* loop has been entered and its next step can be taken (a command received,
\* the command answered, StopPending sent), and every request that is not
\* itself asleep can take its next step.
Asleep(r) == r.pc = "sleep" /\ r.sleepLeft > 0

C12_SleepSuspendsOnlyItself ==
    (proc = "service" /\ \E i \in Reqs : Timed(req[i])) =>
        /\ hostPc \in {"loop", "switch", "break", "returned"}
        /\ (hostPc = "loop" /\ Len(consumed) < MaxSignals) =>
              \A cmd \in Cmds : ENABLED Receive(cmd)
        /\ hostPc = "switch" => ENABLED Switch
        /\ hostPc = "break" => ENABLED ExecuteReturn
        /\ \A j \in Reqs : ~Asleep(req[j]) => ENABLED Step(j)

C12_Witness ==
    /\ proc = "service"
    /\ \A i \in Reqs : Asleep(req[i])
    /\ hostPc = "loop"
    /\ consumed = <<"Interrogate">>
    /\ Len(changes) = 2

\* C13: the first status Execute sends is Running with Stop and Shutdown
\* accepted; it is sent before startServer is started and before a command
\* is received, and Execute is in its loop, able to receive, while
\* startServer has not begun to listen.
C13_RunningReportedFirst ==
    /\ Len(changes) >= 1 =>
          changes[1] = [State |-> "Running", Accepts |-> {"Stop", "Shutdown"}]
    /\ (hostPc # "none" /\ srv # "off") => Len(changes) >= 1
    /\ Len(consumed) >= 1 => Len(changes) >= 1
    /\ hostPc \in {"run", "entry"} => (srv = "off" /\ consumed = <<>> /\ changes = <<>>)
    /\ (proc = "service" /\ srv = "starting") =>
          /\ hostPc \in {"loop", "switch", "break", "returned"}
          /\ (hostPc = "loop" /\ Len(consumed) < MaxSignals) =>
                \A cmd \in Cmds : ENABLED Receive(cmd)

C13_Witness ==
    /\ proc = "service"
    /\ srv = "starting"
    /\ hostPc = "switch"
    /\ consumed = <<"Stop">>
    /\ changes = <<RunningStatus>>

\* C14: a command other than Interrogate, Stop and Shutdown brings no report
\* and no other state: every report is the one made on entry, the answer to an
\* Interrogate or the StopPending of the return, each status is Running or
\* StopPending, and after such a command the loop receives again.
Unexpected(cmd) == cmd \notin {"Interrogate", "Stop", "Shutdown"}

C14_UnexpectedIsIgnored ==
    /\ Len(changes) = (IF hostPc \in {"none", "run", "entry"} THEN 0 ELSE 1)
                      + Count(Handled, "Interrogate")
                      + (IF hostPc = "returned" THEN 1 ELSE 0)
    /\ \A k \in 1..Len(changes) : changes[k].State \in {"Running", "StopPending"}
    /\ (Len(consumed) > 0 /\ Unexpected(consumed[Len(consumed)])) =>
          hostPc \in {"switch", "loop"}
    /\ (\A k \in 1..Len(consumed) : Unexpected(consumed[k])) =>
          (hostPc \in {"loop", "switch"} => changes = <<RunningStatus>>)

C14_Witness ==
    /\ hostPc = "loop"
    /\ consumed = <<"Pause", "Pause">>
    /\ changes = <<RunningStatus>>

\* C15: in the service as in the console, once ListenAndServe has failed the
\* process ends: it does not go on with Execute's loop and no server.
C15_ListenFailureIsFatal == (srv = "failed") ~> (proc = "exited")

C15_Witness ==
    /\ build = "dual"
    /\ srv = "failed"
    /\ proc = "exited"
    /\ hostPc = "loop"
    /\ Len(consumed) >= 1

\* C16: a /start calls Start at most once and Control never, a /stop calls
\* Control at most once and Start never, a /status calls neither, queries
\* once and never sleeps; an operation that timed out has sent its one
\* command and nothing else.
C16_OneCommandPerRequest ==
    \A i \in Reqs :
        /\ req[i].route = "start" => (req[i].nStart <= 1 /\ req[i].nControl = 0)
        /\ req[i].route = "stop" => (req[i].nControl <= 1 /\ req[i].nStart = 0)
        /\ req[i].route = "status" =>
              /\ req[i].nStart = 0 /\ req[i].nControl = 0
              /\ req[i].nSleep = 0 /\ req[i].nQuery <= 1
              /\ ~Timed(req[i]) /\ req[i].err # "timeout"
              /\ (Returned(req[i]) /\ req[i].nOpen = 1) => req[i].nQuery = 1
        /\ req[i].err = "timeout" => req[i].nStart + req[i].nControl = 1

C16_Witness ==
    \E i \in Reqs : /\ req[i].pc = "done" /\ req[i].route = "start"
                    /\ req[i].err = "timeout" /\ req[i].nStart = 1
                    /\ req[i].nControl = 0 /\ svcState[req[i].name] = "StartPending"

\* C17: in the console nothing of the service side happens: Execute is never
\* entered, nothing is sent to a host, no command is received, and
\* startServer has been called; and main leaves through log.Fatalf with no
\* server started and no Execute entered.
C17_ConsoleSkipsHost ==
    /\ [](proc = "console" => (hostPc = "none" /\ srv # "off"))
    /\ [](hostPc = "none" => (changes = <<>> /\ consumed = <<>>))
    /\ [][(proc = "main" /\ proc' = "exited")
             => (srv' = "off" /\ hostPc' = "none" /\ changes' = <<>>)]_vars
    /\ [][proc = "console" => proc' \in {"console", "exited"}]_vars
    /\ [][hostPc = "none" => (hostPc' = "none" \/ proc = "main")]_vars

C17_Witness ==
    /\ build = "dual"
    /\ proc = "console"
    /\ srv = "listening"
    /\ hostPc = "none"
    /\ changes = <<>>

\* C18: a wait whose last status is the desired state returns nil, however
\* late; the deadline is tested, and the timeout error returned, only with a
\* last status that is not the desired state, and in waitForState that status
\* comes from a Query made after the last sleep.
Waits(r) == r.route \in {"start", "stop"}

C18_StateBeforeDeadline ==
    \A i \in Reqs :
        Waits(req[i]) =>
            /\ (req[i].status = Desired(req[i]) /\ req[i].pc # "stopwait") =>
                  (Exited(req[i]) /\ req[i].err = "nil")
            /\ (req[i].pc = "deadline" \/ req[i].err = "timeout") =>
                  /\ req[i].status # Desired(req[i])
                  /\ req[i].status # ""
                  /\ build = "dual" => req[i].nQuery = Bump(req[i].nSleep)

C18_Witness ==
    \E i \in Reqs : /\ build = "dual" /\ req[i].route = "start" /\ req[i].pc = "done"
                    /\ req[i].err = "nil" /\ req[i].status = "Running"
                    /\ req[i].clk > req[i].timeout /\ req[i].nSleep >= 1

\* C19: the service handle is used (Start, Control, Query) only by an
\* operation that has opened it and has neither closed it nor disconnected;
\* the manager connection is released only after every opened handle has
\* been closed, on every path out of the operation.
UsesHandle(r) ==
    r.pc \in {"start", "control", "wait", "stopwait", "query", "deadline", "sleep", "status"}

C19_HandleInsideOpenClose ==
    \A i \in Reqs :
        /\ UsesHandle(req[i]) =>
              /\ req[i].nConnect = 1 /\ req[i].nOpen = 1
              /\ req[i].nClose = 0 /\ req[i].nDisconnect = 0
        /\ (req[i].nStart > 0 \/ req[i].nControl > 0 \/ req[i].nQuery > 0) =>
              req[i].nOpen = 1
        /\ req[i].nClose > 0 => req[i].pc \in {"disconnect", "return", "done"}
        /\ req[i].nDisconnect > 0 =>
              (req[i].nClose = req[i].nOpen /\ Returned(req[i]))

C19_Witness ==
    \E i \in Reqs : /\ req[i].pc = "return" /\ req[i].route = "stop"
                    /\ req[i].err = "nil" /\ req[i].nControl = 1 /\ req[i].nQuery >= 1
                    /\ req[i].nOpen = 1 /\ req[i].nClose = 1 /\ req[i].nDisconnect = 1

\* C20: while the process lives, a request inside waitForState leaves it, and
\* it leaves it with nil, the timeout error or the Query error; Execute's
\* loop is left only on a Stop or Shutdown just consumed, and while it waits
\* for a command nothing but a command moves it on, the passing of time
\* included.
WaitErrs == {"nil", "timeout", QueryErr}

C20_WaitReturnsLoopBlocks ==
    /\ Timed(req[1]) ~> (~Timed(req[1]) \/ proc = "exited")
    /\ [][(Timed(req[1]) /\ ~Timed(req[1]'))
             => (req[1].pc' = "close" /\ req[1].err' \in WaitErrs)]_vars
    /\ [](hostPc \in {"break", "returned"} =>
             (Len(consumed) > 0 /\ consumed[Len(consumed)] \in {"Stop", "Shutdown"}))
    /\ [][(hostPc = "loop" /\ hostPc' # "loop")
             => (hostPc' = "switch" /\ Len(consumed') = Len(consumed) + 1)]_vars

C20_Witness ==
    /\ proc = "service" /\ hostPc = "loop" /\ consumed = <<"Interrogate">>
    /\ req[1].pc = "close" /\ req[1].err = "timeout" /\ req[1].status = "StartPending"
    /\ req[1].nSleep = CountCap

====
